---------------------------- MODULE Spec2Model ----------------------------
(***************************************************************************)
(* A model of the undo-list truncation of src/undo.c (truncate_undo_list)  *)
(* as a state machine that executes the function statement by statement.   *)
(*                                                                         *)
(* A Lisp list is a record [cells, tail]: cells is the sequence of the     *)
(* cars of its conses, newest entry first, and tail is the atom in which   *)
(* the chain of cdrs ends ("nil" for a proper list; the atom Qt, which is  *)
(* the value of a disabled undo list, is the list with no cell and tail    *)
(* "t").  A position in a list is the index of a cons: 0 stands for Qnil,  *)
(* i in 1..Len(cells) for the i-th cons, Len(cells)+1 for the tail atom.   *)
(***************************************************************************)
EXTENDS Integers, Sequences, FiniteSets, TLC

(***************************************************************************)
(* Bounds of the model.                                                    *)
(***************************************************************************)
\* the longest undo list drawn at Init
MaxLen == 4

(***************************************************************************)
(* Sizes of the Lisp objects the walk accounts (64-bit build).             *)
(***************************************************************************)
\* sizeof (struct Lisp_Cons)
SizeofLispCons == 16
\* sizeof (struct Lisp_String)
SizeofLispString == 32

(***************************************************************************)
(* Undo entries: the car of one cons of the undo list.                     *)
(*   nil     an undo boundary                                              *)
(*   atom    a non-nil atom (a recorded point position)                    *)
(*   cons    a cons whose car is no string (an insertion (BEG . END), a    *)
(*           property change (nil PROP VAL BEG . END), (t . TIME), ...)    *)
(*   string  a cons whose car is a string of `chars' characters (a         *)
(*           deletion (TEXT . POSITION))                                   *)
(***************************************************************************)
Boundary == [tag |-> "nil", chars |-> 0]
Atom == [tag |-> "atom", chars |-> 0]
Pair == [tag |-> "cons", chars |-> 0]
Deletion(n) == [tag |-> "string", chars |-> n]

\* the lengths of deleted text drawn at Init
TextLengths == {1}

Entries == {Boundary, Atom, Pair} \cup {Deletion(n) : n \in TextLengths}

Qnil == [cells |-> << >>, tail |-> "nil"]
Qt == [cells |-> << >>, tail |-> "t"]
List(s) == [cells |-> s, tail |-> "nil"]

SeqsUpTo(S, n) == UNION {[1..k -> S] : k \in 0..n}

\* the proper lists of at most MaxLen entries
ProperLists == {List(s) : s \in SeqsUpTo(Entries, MaxLen)}

Buffers == {"b1", "b2"}

\* a Lisp value that is nil or a fixnum: Vundo_outer_limit
NoLimit == [int |-> FALSE, val |-> 0]
Fixnum(n) == [int |-> TRUE, val |-> n]
INTEGERP(x) == x.int
XINT(x) == x.val

\* the threshold settings drawn at Init
UndoLimits == {32, 80}
UndoStrongLimits == {48, 96}
UndoOuterLimits == {NoLimit, Fixnum(64)}
OuterLimitFunctions == {"nil", "fn"}

VARIABLES
  undo_list,                   \* BVAR (buf, undo_list) of every buffer
  current_buffer,              \* the current buffer
  gc_inhibit,                  \* depth of inhibit_garbage_collection bindings
  undo_limit,                  \* undo-limit
  undo_strong_limit,           \* undo-strong-limit
  Vundo_outer_limit,           \* undo-outer-limit
  Vundo_outer_limit_function,  \* undo-outer-limit-function
  pc,                          \* position in truncate_undo_list
  b,                           \* its argument
  list, prev, next, last_boundary, size_so_far,   \* its locals
  count,                       \* gc_inhibit depth to unbind to
  saved_buffer,                \* buffer saved by record_unwind_current_buffer
  entry_list,                  \* history: undo list of b when the call began
  entry_state,                 \* history: the rest of the state at that time
  cb_calls,                    \* history: callback invocations of this call
  cb_arg,                      \* history: argument of the callback
  cb_list,                     \* history: undo list of b when it was invoked
  cb_result,                   \* history: "none", "nil", "t" or "error"
  cb_cleared,                  \* history: the callback emptied the undo list
  last_call,                   \* history: the call that returned last: its
                               \* buffer, what the callback did, and whether
                               \* the undo list was changed
  modiff,                      \* BUF_MODIFF of every buffer
  save_modiff,                 \* BUF_SAVE_MODIFF of every buffer
  pending_boundary,            \* prepare_record has allocated its cons
  rec,                         \* history: the last record_property_change
  defining_kbd_macro,          \* KVAR (current_kboard, defining_kbd_macro)
  kbd_macro_buffer,            \* current_kboard->kbd_macro_buffer
  kbd_macro_bufsize,           \* current_kboard->kbd_macro_bufsize
  kbd_macro_ptr,               \* ->kbd_macro_ptr, as an offset in the buffer
  kbd_macro_end,               \* ->kbd_macro_end, as an offset in the buffer
  Vlast_kbd_macro,             \* KVAR (current_kboard, Vlast_kbd_macro)
  update_mode_lines,           \* update_mode_lines
  mpc,                         \* position in Fstart_kbd_macro
  macro_call,                  \* history: the last call of start-kbd-macro
  de2000                       \* history: the last call of lcms-cie-de2000

config == <<undo_limit, undo_strong_limit, Vundo_outer_limit,
            Vundo_outer_limit_function>>
locals == <<list, prev, next, last_boundary, size_so_far>>
unwind == <<count, saved_buffer>>
history == <<entry_list, entry_state, cb_calls, cb_arg, cb_list, cb_result,
             cb_cleared>>
editing == <<modiff, save_modiff, pending_boundary, rec>>
macro == <<defining_kbd_macro, kbd_macro_buffer, kbd_macro_bufsize,
           kbd_macro_ptr, kbd_macro_end, Vlast_kbd_macro, update_mode_lines,
           mpc, macro_call>>
color == <<de2000>>
vars == <<undo_list, current_buffer, gc_inhibit, config, pc, b, locals,
          unwind, history, last_call, editing, macro, color>>

\* MODIFF and SAVE_MODIFF are those of the current buffer
MODIFF == modiff[current_buffer]
SAVE_MODIFF == save_modiff[current_buffer]

(***************************************************************************)
(* Lisp primitives on positions of `list'.                                 *)
(***************************************************************************)
CONSP(l, i) == i >= 1 /\ i <= Len(l.cells)
NILP(l, i) == i = 0 \/ (i = Len(l.cells) + 1 /\ l.tail = "nil")
XCAR(l, i) == l.cells[i]
XCDR(l, i) == i + 1
\* mutant: the list is replaced by what follows cons i instead of being
\* cut after it
SetCdrNil_KeepsRest(l, i) ==
  [cells |-> SubSeq(l.cells, i + 1, Len(l.cells)), tail |-> l.tail]

\* the list after XSETCDR (cons i, Qnil)
SetCdrNil(l, i) == [cells |-> SubSeq(l.cells, 1, i), tail |-> "nil"]

\* mutant: the text of a deletion record is not counted
ElementSize_TextUncounted(elt) ==
  SizeofLispCons + (IF elt.tag \in {"cons", "string"} THEN SizeofLispCons ELSE 0)

\* the space occupied by an element and its chain link
ElementSize(elt) ==
  SizeofLispCons
  + (IF elt.tag \in {"cons", "string"}
       THEN SizeofLispCons
            + (IF elt.tag = "string"
                 THEN SizeofLispString - 1 + elt.chars
                 ELSE 0)
       ELSE 0)

\* mutant: the strong limit is taken for exceeded where undo_limit is
PastStrongLimit_ComparesLimit(size) == size > undo_limit

\* mutant: equality counts as exceeding undo_strong_limit
PastStrongLimit_NonStrict(size) == size >= undo_strong_limit

\* size_so_far > undo_strong_limit
PastStrongLimit(size) == size > undo_strong_limit
\* mutant: equality counts as exceeding undo_limit
PastLimit_NonStrict(size) == size >= undo_limit

\* mutant: undo_limit is taken for exceeded only where the strong limit is
PastLimit_ComparesStrongLimit(size) == size > undo_strong_limit

\* size_so_far > undo_limit
PastLimit(size) == size > undo_limit
\* mutant: the function is called without the test that it is non-nil
PastOuterLimit_NoFunctionTest(size) ==
  /\ INTEGERP(Vundo_outer_limit)
  /\ size > XINT(Vundo_outer_limit)

\* mutant: equality counts as exceeding undo_outer_limit
PastOuterLimit_NonStrict(size) ==
  /\ INTEGERP(Vundo_outer_limit)
  /\ size >= XINT(Vundo_outer_limit)
  /\ Vundo_outer_limit_function # "nil"

\* the condition under which undo-outer-limit-function is called
PastOuterLimit(size) ==
  /\ INTEGERP(Vundo_outer_limit)
  /\ size > XINT(Vundo_outer_limit)
  /\ Vundo_outer_limit_function # "nil"

(***************************************************************************)
(* Init: an idle editor.  b1 has any proper undo list of at most MaxLen    *)
(* entries; b2, the current buffer, has undo disabled.                     *)
(***************************************************************************)
\* no call of truncate_undo_list is in progress
NoEntry == [buffer |-> "b1", gc |-> 0, lists |-> [x \in Buffers |-> Qnil],
            config |-> <<0, 0, NoLimit, "nil">>,
            modiff |-> [x \in Buffers |-> 0],
            save_modiff |-> [x \in Buffers |-> 0]]

\* record_property_change has not been called
NoRecord == [called |-> FALSE, buffer |-> "b1", current |-> "b1",
             lists |-> [x \in Buffers |-> Qnil], prepared |-> FALSE,
             first_change |-> FALSE, beg |-> 0, length |-> 0,
             earlier |-> FALSE]

\* nothing is being edited
IdleEditing ==
  /\ modiff = [x \in Buffers |-> 1]
  /\ save_modiff = [x \in Buffers |-> 1]
  /\ pending_boundary = FALSE
  /\ rec = NoRecord

\* a null kbd_macro_buffer, and one of n slots that hold what `slots' says
NullBuffer == [null |-> TRUE, slots |-> << >>]
Allocated(slots) == [null |-> FALSE, slots |-> slots]

\* Lisp values of last-kbd-macro: nil, a vector or a string of events
NoMacro == [type |-> "nil", elts |-> << >>]
MacroVector(elts) == [type |-> "vector", elts |-> elts]
MacroString(elts) == [type |-> "string", elts |-> elts]

\* start-kbd-macro has not been called
NoMacroCall == [result |-> "none", append |-> FALSE, no_exec |-> FALSE,
                executions |-> 0, defining |-> "nil",
                buffer |-> NullBuffer, bufsize |-> 0, ptr |-> 0, end |-> 0,
                last |-> NoMacro]

\* a keyboard on which no macro was ever defined
IdleMacro ==
  /\ defining_kbd_macro = "nil"
  /\ kbd_macro_buffer = NullBuffer
  /\ kbd_macro_bufsize = 0
  /\ kbd_macro_ptr = 0
  /\ kbd_macro_end = 0
  /\ Vlast_kbd_macro = NoMacro
  /\ update_mode_lines = 0
  /\ mpc = "idle"
  /\ macro_call = NoMacroCall

\* a Lisp value that is neither nil nor a number
NotANumber == [int |-> FALSE, val |-> 1]

\* lcms-cie-de2000 has not been called
NoDistance == [result |-> "none", color1 |-> "none", color2 |-> "none",
               kL |-> NoLimit, kC |-> NoLimit, kH |-> NoLimit,
               Kl |-> 0, Kc |-> 0, Kh |-> 0]

IdleLocals ==
  /\ list = Qnil /\ prev = 0 /\ next = 0 /\ last_boundary = 0
  /\ size_so_far = 0 /\ count = 0 /\ saved_buffer = "b1"
  /\ b = "b1" /\ entry_list = Qnil /\ entry_state = NoEntry
  /\ cb_calls = 0 /\ cb_arg = 0 /\ cb_list = Qnil
  /\ cb_result = "none" /\ cb_cleared = FALSE

Init ==
  /\ undo_list \in {[x \in Buffers |-> IF x = "b1" THEN l ELSE Qt] :
                      l \in ProperLists}
  /\ current_buffer = "b2"
  /\ gc_inhibit = 0
  /\ undo_limit \in UndoLimits
  /\ undo_strong_limit \in UndoStrongLimits
  /\ Vundo_outer_limit \in UndoOuterLimits
  /\ Vundo_outer_limit_function \in OuterLimitFunctions
  /\ pc = "idle"
  /\ IdleLocals
  /\ last_call = [b |-> "none", cb |-> "none", cleared |-> FALSE,
                  changed |-> FALSE]
  /\ IdleEditing
  /\ IdleMacro
  /\ de2000 = NoDistance

\* mutant: garbage collection is not inhibited
Enter_NoInhibit(bb) ==
  /\ pc = "idle"
  /\ b' = bb
  /\ size_so_far' = 0
  /\ count' = gc_inhibit
  /\ gc_inhibit' = gc_inhibit
  /\ saved_buffer' = current_buffer
  /\ current_buffer' = bb
  /\ list' = undo_list[bb]
  /\ prev' = 0
  /\ next' = 1
  /\ last_boundary' = 0
  /\ entry_list' = undo_list[bb]
  /\ entry_state' = [buffer |-> current_buffer, gc |-> gc_inhibit,
                     lists |-> undo_list, config |-> config,
                     modiff |-> modiff, save_modiff |-> save_modiff]
  /\ cb_calls' = 0 /\ cb_arg' = 0 /\ cb_list' = Qnil
  /\ cb_result' = "none" /\ cb_cleared' = FALSE
  /\ pc' = "skip_boundary"
  /\ UNCHANGED <<undo_list, config, last_call, editing, macro, color>>

\* mutant: the buffer is made current without the current one being saved
\* for unbind_to
Enter_NoUnwindBuffer(bb) ==
  /\ pc = "idle"
  /\ b' = bb
  /\ size_so_far' = 0
  /\ count' = gc_inhibit
  /\ gc_inhibit' = gc_inhibit + 1
  /\ saved_buffer' = bb
  /\ current_buffer' = bb
  /\ list' = undo_list[bb]
  /\ prev' = 0
  /\ next' = 1
  /\ last_boundary' = 0
  /\ entry_list' = undo_list[bb]
  /\ entry_state' = [buffer |-> current_buffer, gc |-> gc_inhibit,
                     lists |-> undo_list, config |-> config,
                     modiff |-> modiff, save_modiff |-> save_modiff]
  /\ cb_calls' = 0 /\ cb_arg' = 0 /\ cb_list' = Qnil
  /\ cb_result' = "none" /\ cb_cleared' = FALSE
  /\ pc' = "skip_boundary"
  /\ UNCHANGED <<undo_list, config, last_call, editing, macro, color>>

(***************************************************************************)
(* truncate_undo_list (bb), lines 68-84: inhibit GC, make bb current,      *)
(* fetch its undo list.                                                    *)
(***************************************************************************)
Enter(bb) ==
  /\ pc = "idle"
  /\ b' = bb
  /\ size_so_far' = 0
  /\ count' = gc_inhibit
  /\ gc_inhibit' = gc_inhibit + 1
  /\ saved_buffer' = current_buffer
  /\ current_buffer' = bb
  /\ list' = undo_list[bb]
  /\ prev' = 0
  /\ next' = 1
  /\ last_boundary' = 0
  /\ entry_list' = undo_list[bb]
  /\ entry_state' = [buffer |-> current_buffer, gc |-> gc_inhibit,
                     lists |-> undo_list, config |-> config,
                     modiff |-> modiff, save_modiff |-> save_modiff]
  /\ cb_calls' = 0 /\ cb_arg' = 0 /\ cb_list' = Qnil
  /\ cb_result' = "none" /\ cb_cleared' = FALSE
  /\ pc' = "skip_boundary"
  /\ UNCHANGED <<undo_list, config, last_call, editing, macro, color>>

\* unbind_to (count, Qnil): undo the GC inhibition and restore the buffer
Unbind ==
  /\ gc_inhibit' = count
  /\ current_buffer' = saved_buffer

\* mutant: the leading boundary is skipped without its cons being counted
SkipLeadingBoundary_Uncounted ==
  /\ pc = "skip_boundary"
  /\ IF CONSP(list, next) /\ XCAR(list, next) = Boundary
       THEN /\ prev' = next
            /\ next' = XCDR(list, next)
       ELSE UNCHANGED <<prev, next>>
  /\ pc' = "first_group"
  /\ UNCHANGED <<undo_list, current_buffer, gc_inhibit, config, b, list,
                 size_so_far, last_boundary, unwind, history, last_call, editing, macro, color>>

\* lines 86-95: if the first element is an undo boundary, skip past it
SkipLeadingBoundary ==
  /\ pc = "skip_boundary"
  /\ IF CONSP(list, next) /\ XCAR(list, next) = Boundary
       THEN /\ size_so_far' = size_so_far + SizeofLispCons
            /\ prev' = next
            /\ next' = XCDR(list, next)
       ELSE UNCHANGED <<size_so_far, prev, next>>
  /\ pc' = "first_group"
  /\ UNCHANGED <<undo_list, current_buffer, gc_inhibit, config, b, list,
                 last_boundary, unwind, history, last_call, editing, macro, color>>

\* lines 103-121: one iteration of the loop over the most recent group
SkipFirstGroup ==
  /\ pc = "first_group"
  /\ IF CONSP(list, next) /\ XCAR(list, next) # Boundary
       THEN /\ size_so_far' = size_so_far + ElementSize(XCAR(list, next))
            /\ prev' = next
            /\ next' = XCDR(list, next)
            /\ pc' = "first_group"
       ELSE /\ UNCHANGED <<size_so_far, prev, next>>
            /\ pc' = "outer_limit"
  /\ UNCHANGED <<undo_list, current_buffer, gc_inhibit, config, b, list,
                 last_boundary, unwind, history, last_call, editing, macro, color>>

\* lines 125-132: the test of undo-outer-limit and the call of the function
OuterLimitCheck ==
  /\ pc = "outer_limit"
  /\ IF PastOuterLimit(size_so_far)
       THEN /\ pc' = "callback"
            /\ cb_calls' = cb_calls + 1
            /\ cb_arg' = size_so_far
            /\ cb_list' = undo_list[b]
       ELSE /\ pc' = "mark"
            /\ UNCHANGED <<cb_calls, cb_arg, cb_list>>
  /\ UNCHANGED <<undo_list, current_buffer, gc_inhibit, config, b, locals,
                 unwind, entry_list, entry_state, cb_result, cb_cleared, last_call, editing, macro, color>>

\* mutant: after a nil result the walk goes on with the size counted anew
CallbackReturns_CountsAnew(tem, clears) ==
  /\ pc = "callback"
  /\ cb_result' = tem
  /\ cb_cleared' = clears
  /\ undo_list' = IF clears
                    THEN [undo_list EXCEPT ![current_buffer] = Qnil]
                    ELSE undo_list
  /\ IF tem # "nil"
       THEN Unbind /\ pc' = "done" /\ UNCHANGED size_so_far
       ELSE /\ UNCHANGED <<current_buffer, gc_inhibit>>
            /\ pc' = "mark"
            /\ size_so_far' = 0
  /\ UNCHANGED <<config, b, list, prev, next, last_boundary, unwind,
                 entry_list, entry_state, cb_calls, cb_arg, cb_list,
                 last_call, editing, macro, color>>

\* mutant: the return after a non-nil result leaves the bindings in place
CallbackReturns_NoUnbind(tem, clears) ==
  /\ pc = "callback"
  /\ cb_result' = tem
  /\ cb_cleared' = clears
  /\ undo_list' = IF clears
                    THEN [undo_list EXCEPT ![current_buffer] = Qnil]
                    ELSE undo_list
  /\ pc' = IF tem # "nil" THEN "done" ELSE "mark"
  /\ UNCHANGED <<current_buffer, gc_inhibit, config, b, locals, unwind,
                 entry_list, entry_state, cb_calls, cb_arg, cb_list,
                 last_call, editing, macro, color>>

\* undo-outer-limit-function returns tem ("nil" or "t"), having emptied the
\* undo list of the current buffer or not; lines 133-139 then return from
\* truncate_undo_list when tem is non-nil
CallbackReturns(tem, clears) ==
  /\ pc = "callback"
  /\ cb_result' = tem
  /\ cb_cleared' = clears
  /\ undo_list' = IF clears
                    THEN [undo_list EXCEPT ![current_buffer] = Qnil]
                    ELSE undo_list
  /\ IF tem # "nil"
       THEN Unbind /\ pc' = "done"
       ELSE UNCHANGED <<current_buffer, gc_inhibit>> /\ pc' = "mark"
  /\ UNCHANGED <<config, b, locals, unwind, entry_list, entry_state, cb_calls, cb_arg,
                 cb_list, last_call, editing, macro, color>>

\* undo-outer-limit-function signals an error: the non-local exit unwinds
\* the bindings made at lines 72 and 77
CallbackSignals ==
  /\ pc = "callback"
  /\ cb_result' = "error"
  /\ Unbind
  /\ pc' = "done"
  /\ UNCHANGED <<undo_list, config, b, locals, unwind, entry_list, entry_state, cb_calls,
                 cb_arg, cb_list, cb_cleared, last_call, editing, macro, color>>

\* mutant: the end of the first group is not remembered as a place to cut
MarkFirstGroup_Omitted ==
  /\ pc = "mark"
  /\ pc' = "walk"
  /\ UNCHANGED <<undo_list, current_buffer, gc_inhibit, config, b, locals,
                 unwind, history, last_call, editing, macro, color>>

\* lines 142-143
MarkFirstGroup ==
  /\ pc = "mark"
  /\ last_boundary' = IF CONSP(list, next) THEN prev ELSE last_boundary
  /\ pc' = "walk"
  /\ UNCHANGED <<undo_list, current_buffer, gc_inhibit, config, b, list,
                 prev, next, size_so_far, unwind, history, last_call, editing, macro, color>>

\* mutant: the loop goes round without advancing when the entry is an atom
Walk_StaysOnAtom ==
  /\ pc = "walk"
  /\ IF ~CONSP(list, next)
       THEN /\ pc' = "resolve"
            /\ UNCHANGED <<prev, next, last_boundary, size_so_far>>
       ELSE LET elt == XCAR(list, next) IN
            IF elt = Boundary /\ PastStrongLimit(size_so_far)
              THEN /\ pc' = "resolve"
                   /\ UNCHANGED <<prev, next, last_boundary, size_so_far>>
              ELSE IF elt = Boundary /\ PastLimit(size_so_far)
                THEN /\ last_boundary' = prev
                     /\ pc' = "resolve"
                     /\ UNCHANGED <<prev, next, size_so_far>>
                ELSE IF elt = Atom
                  THEN /\ pc' = "walk"
                       /\ UNCHANGED <<prev, next, last_boundary, size_so_far>>
                  ELSE /\ last_boundary' =
                            IF elt = Boundary THEN prev ELSE last_boundary
                       /\ size_so_far' = size_so_far + ElementSize(elt)
                       /\ prev' = next
                       /\ next' = XCDR(list, next)
                       /\ pc' = "walk"
  /\ UNCHANGED <<undo_list, current_buffer, gc_inhibit, config, b, list,
                 unwind, history, last_call, editing, macro, color>>

\* lines 146-177: one iteration of the loop that keeps additional undo data
Walk ==
  /\ pc = "walk"
  /\ IF ~CONSP(list, next)
       THEN /\ pc' = "resolve"
            /\ UNCHANGED <<prev, next, last_boundary, size_so_far>>
       ELSE LET elt == XCAR(list, next) IN
            IF elt = Boundary /\ PastStrongLimit(size_so_far)
              THEN /\ pc' = "resolve"
                   /\ UNCHANGED <<prev, next, last_boundary, size_so_far>>
              ELSE IF elt = Boundary /\ PastLimit(size_so_far)
                THEN /\ last_boundary' = prev
                     /\ pc' = "resolve"
                     /\ UNCHANGED <<prev, next, size_so_far>>
                ELSE /\ last_boundary' =
                          IF elt = Boundary THEN prev ELSE last_boundary
                     /\ size_so_far' = size_so_far + ElementSize(elt)
                     /\ prev' = next
                     /\ next' = XCDR(list, next)
                     /\ pc' = "walk"
  /\ UNCHANGED <<undo_list, current_buffer, gc_inhibit, config, b, list,
                 unwind, history, last_call, editing, macro, color>>

\* mutant: the list is cut also when the walk has scanned all of it
Truncated_NoEndTest(bb) ==
  IF last_boundary # 0
    THEN IF undo_list[bb] = list
           THEN SetCdrNil(list, last_boundary)
           ELSE undo_list[bb]
    ELSE Qnil

\* mutant: the list is emptied whenever the walk stopped before its end
Truncated_IgnoresLastBoundary(bb) ==
  IF NILP(list, next) THEN undo_list[bb] ELSE Qnil

\* the undo list of buffer bb after lines 179-187.  XSETCDR changes the cons
\* last_boundary of `list'; the buffer's undo list changes with it when it
\* still is that chain of conses, which it is unless the callback emptied it
\* (a chain that XSETCDR changes has a cons, so it is not the empty list).
Truncated(bb) ==
  IF NILP(list, next)
    THEN undo_list[bb]
    ELSE IF last_boundary # 0
      THEN IF undo_list[bb] = list
             THEN SetCdrNil(list, last_boundary)
             ELSE undo_list[bb]
      ELSE Qnil

\* lines 179-189
Resolve ==
  /\ pc = "resolve"
  /\ undo_list' = [undo_list EXCEPT ![b] = Truncated(b)]
  /\ list' = IF ~NILP(list, next) /\ last_boundary # 0
               THEN SetCdrNil(list, last_boundary)
               ELSE list
  /\ Unbind
  /\ pc' = "done"
  /\ UNCHANGED <<config, b, prev, next, last_boundary, size_so_far, unwind,
                 history, last_call, editing, macro, color>>

\* the caller goes on; the frame of truncate_undo_list is gone
Return ==
  /\ pc = "done"
  /\ pc' = "idle"
  /\ last_call' = [b |-> b, cb |-> cb_result, cleared |-> cb_cleared,
                   changed |-> undo_list[b] # entry_list]
  /\ list' = Qnil /\ prev' = 0 /\ next' = 0 /\ last_boundary' = 0
  /\ size_so_far' = 0 /\ count' = 0 /\ saved_buffer' = "b1"
  /\ b' = "b1" /\ entry_list' = Qnil /\ entry_state' = NoEntry
  /\ cb_calls' = 0 /\ cb_arg' = 0 /\ cb_list' = Qnil
  /\ cb_result' = "none" /\ cb_cleared' = FALSE
  /\ UNCHANGED <<undo_list, current_buffer, gc_inhibit, config, editing,
                 macro, color>>

Next ==
  \/ \E bb \in Buffers : Enter(bb)
  \/ SkipLeadingBoundary
  \/ SkipFirstGroup
  \/ OuterLimitCheck
  \/ \E tem \in {"nil", "t"}, clears \in BOOLEAN : CallbackReturns(tem, clears)
  \/ CallbackSignals
  \/ MarkFirstGroup
  \/ Walk
  \/ Resolve
  \/ Return

Spec == Init /\ [][Next]_vars

(***************************************************************************)
(* The same calls from a wider range of surroundings: either buffer is     *)
(* current, garbage collection is already inhibited or not, and both       *)
(* buffers have one of a few undo lists.                                   *)
(***************************************************************************)
FrameLists ==
  {Qt, Qnil, List(<<Pair, Deletion(1), Boundary, Pair, Boundary, Atom>>)}

InitFrame ==
  /\ undo_list \in [Buffers -> FrameLists]
  /\ current_buffer \in Buffers
  /\ gc_inhibit \in {0, 1}
  /\ undo_limit \in UndoLimits
  /\ undo_strong_limit \in UndoStrongLimits
  /\ Vundo_outer_limit \in UndoOuterLimits
  /\ Vundo_outer_limit_function \in OuterLimitFunctions
  /\ pc = "idle"
  /\ IdleLocals
  /\ last_call = [b |-> "none", cb |-> "none", cleared |-> FALSE,
                  changed |-> FALSE]
  /\ modiff \in [Buffers -> {1, 2}]
  /\ save_modiff = [x \in Buffers |-> 1]
  /\ pending_boundary = FALSE
  /\ rec = NoRecord
  /\ IdleMacro
  /\ de2000 = NoDistance

SpecFrame == InitFrame /\ [][Next]_vars

(***************************************************************************)
(* The calls of truncate_undo_list on the proper lists of at most MaxWalk  *)
(* entries, every step that can be taken being taken in the end: the       *)
(* function runs on, and the callback it calls returns or signals.         *)
(***************************************************************************)
MaxWalk == 3

InitWalk ==
  /\ undo_list \in [Buffers -> {List(s) : s \in SeqsUpTo(Entries, MaxWalk)}]
  /\ undo_list["b2"] = Qnil
  /\ current_buffer = "b2"
  /\ gc_inhibit = 0
  /\ undo_limit \in UndoLimits
  /\ undo_strong_limit \in UndoStrongLimits
  /\ Vundo_outer_limit \in UndoOuterLimits
  /\ Vundo_outer_limit_function \in OuterLimitFunctions
  /\ pc = "idle"
  /\ IdleLocals
  /\ last_call = [b |-> "none", cb |-> "none", cleared |-> FALSE,
                  changed |-> FALSE]
  /\ IdleEditing
  /\ IdleMacro
  /\ de2000 = NoDistance

SpecWalk == InitWalk /\ [][Next]_vars /\ WF_vars(Next)

(***************************************************************************)
(* record_property_change, lines 35-56.  The property and its old value    *)
(* take no part in the control flow; an entry keeps the positions.         *)
(***************************************************************************)
\* the entry (nil PROP VAL BEG . END) of line 53
PropertyChange(beg, end) ==
  [tag |-> "cons", chars |-> 0, kind |-> "property", beg |-> beg, end |-> end]

\* the first-change marker (t . TIMESTAMP) that record_first_change records
FirstChangeMarker == [tag |-> "cons", chars |-> 0, kind |-> "first-change"]

Fcons(elt, l) == [cells |-> <<elt>> \o l.cells, tail |-> l.tail]

\* the positions and lengths record_property_change is called with
Positions == {1, 2}
Lengths == {0, 3}

\* the longest undo list a call is made on
MaxLog == 4

\* mutant: the undo list of the current buffer is tested
LogDisabled_OfCurrent(buffer) == undo_list[current_buffer] = Qt

\* line 43: EQ (BVAR (buf, undo_list), Qt)
LogDisabled(buffer) == undo_list[buffer] = Qt

\* mutant: equal counters do not count as unmodified
FirstChange_Strict == MODIFF < SAVE_MODIFF

\* line 48: MODIFF <= SAVE_MODIFF, the counters of the current buffer
FirstChange == MODIFF <= SAVE_MODIFF

\* record_first_change (): the undo lists with a first-change marker put on
\* the undo list of the current buffer, unless that list is disabled
RecordFirstChange(lists) ==
  IF lists[current_buffer] = Qt
    THEN lists
    ELSE [lists EXCEPT
            ![current_buffer] = Fcons(FirstChangeMarker, lists[current_buffer])]

\* prepare_record (): the bookkeeping before a record is made leaves the
\* boundary cell for the end of the command allocated
PrepareRecord(pending) == TRUE

RecordPropertyChange(beg, length, buffer) ==
  /\ pc = "idle"
  /\ Len(undo_list[current_buffer].cells) <= MaxLog
  /\ IF LogDisabled(buffer)
       THEN /\ UNCHANGED <<undo_list, pending_boundary>>
            /\ rec' = [called |-> TRUE, buffer |-> buffer,
                       current |-> current_buffer, lists |-> undo_list,
                       prepared |-> FALSE, first_change |-> FALSE,
                       beg |-> beg, length |-> length, earlier |-> FALSE]
       ELSE LET marked == IF FirstChange
                            THEN RecordFirstChange(undo_list)
                            ELSE undo_list
                entry == PropertyChange(beg, beg + length)
            IN  /\ pending_boundary' = PrepareRecord(pending_boundary)
                /\ undo_list' =
                     [marked EXCEPT
                        ![current_buffer] = Fcons(entry, marked[current_buffer])]
                /\ rec' = [called |-> TRUE, buffer |-> buffer,
                           current |-> current_buffer, lists |-> undo_list,
                           prepared |-> TRUE, first_change |-> FirstChange,
                           beg |-> beg, length |-> length,
                           earlier |-> /\ rec.called
                                       /\ rec.buffer = buffer
                                       /\ rec.first_change]
  /\ UNCHANGED <<current_buffer, gc_inhibit, config, pc, b, locals, unwind,
                 history, last_call, modiff, save_modiff, macro, color>>

\* the buffers when record_property_change is called: either may be
\* current, each has its undo list and its modification counters
InitRecord ==
  /\ undo_list \in [Buffers -> {Qt, Qnil, List(<<Atom, Boundary>>)}]
  /\ current_buffer \in Buffers
  /\ gc_inhibit = 0
  /\ undo_limit = 80
  /\ undo_strong_limit = 96
  /\ Vundo_outer_limit = NoLimit
  /\ Vundo_outer_limit_function = "nil"
  /\ pc = "idle"
  /\ IdleLocals
  /\ last_call = [b |-> "none", cb |-> "none", cleared |-> FALSE,
                  changed |-> FALSE]
  /\ modiff \in [Buffers -> {1, 2}]
  /\ save_modiff = [x \in Buffers |-> 1]
  /\ pending_boundary = FALSE
  /\ rec = NoRecord
  /\ IdleMacro
  /\ de2000 = NoDistance

NextRecord ==
  \E beg \in Positions, length \in Lengths, buffer \in Buffers :
    RecordPropertyChange(beg, length, buffer)

SpecRecord == InitRecord /\ [][NextRecord]_vars

(***************************************************************************)
(* Fstart_kbd_macro, macros.c lines 42-120.  kbd_macro_ptr and             *)
(* kbd_macro_end are offsets into kbd_macro_buffer; the slots of a buffer  *)
(* are the values written at its start, what follows them being whatever   *)
(* the allocator left there.                                               *)
(***************************************************************************)
MacroBufferSlots == 30
ShrinkAbove == 200
incr == 30
ModeLinesChanged == 19
MetaBit == 128
CHAR_META == 134217728

Max(m, n) == IF m >= n THEN m ELSE n
Min(m, n) == IF m <= n THEN m ELSE n

\* mutant: a definition in progress is not noticed
AlreadyDefining_Never == FALSE

\* line 53: !NILP (KVAR (current_kboard, defining_kbd_macro))
AlreadyDefining == defining_kbd_macro # "nil"

\* CHECK_VECTOR_OR_STRING, line 84
VectorOrString(m) == m.type \in {"vector", "string"}

\* mutant: the elements of a string are copied as they are
Copied_Unconverted(m, i) == m.elts[i]

\* lines 96-105: element i of the last macro as it is copied into the buffer
Copied(m, i) ==
  LET c == m.elts[i] IN
  IF m.type = "string" /\ c >= 0 /\ (c \div MetaBit) % 2 = 1
    THEN CHAR_META + (c - MetaBit)
    ELSE c

\* the slots after the first len of them were overwritten by the last macro
CopiedInto(slots, m) ==
  [i \in 1..Max(Len(slots), Len(m.elts)) |->
     IF i <= Len(m.elts) THEN Copied(m, i) ELSE slots[i]]

\* xpalloc: the sizes a buffer of n items may have after growing by at
\* least incr_min items
Xpalloc(n, incr_min) == {n + incr_min, Max(n + incr_min, n + n \div 2)}

\* mutant: the last macro is executed again whatever NO-EXEC is
ReExecutes_Always(no_exec) == TRUE

\* line 111: NILP (no_exec)
ReExecutes(no_exec) == ~no_exec

\* the symbol kset_defining_kbd_macro stores at line 117
DefiningValue(append) == "t"

\* the recorder as start-kbd-macro found it
Snapshot(append, no_exec) ==
  [append |-> append, no_exec |-> no_exec,
   defining |-> defining_kbd_macro, buffer |-> kbd_macro_buffer,
   bufsize |-> kbd_macro_bufsize, ptr |-> kbd_macro_ptr,
   end |-> kbd_macro_end, last |-> Vlast_kbd_macro]

Outcome(snapshot, result, executions) ==
  [result |-> result, append |-> snapshot.append,
   no_exec |-> snapshot.no_exec, executions |-> executions,
   defining |-> snapshot.defining, buffer |-> snapshot.buffer,
   bufsize |-> snapshot.bufsize, ptr |-> snapshot.ptr,
   end |-> snapshot.end, last |-> snapshot.last]

\* start-kbd-macro up to its return, its error or its call of
\* Fexecute_kbd_macro
StartKbdMacro(append, no_exec) ==
  /\ mpc = "idle"
  /\ LET snapshot == Snapshot(append, no_exec)
         \* lines 56-62
         buffer1 == IF kbd_macro_buffer.null
                      THEN Allocated(<< >>) ELSE kbd_macro_buffer
         bufsize1 == IF kbd_macro_buffer.null
                       THEN MacroBufferSlots ELSE kbd_macro_bufsize
         ptr1 == IF kbd_macro_buffer.null THEN 0 ELSE kbd_macro_ptr
         end1 == IF kbd_macro_buffer.null THEN 0 ELSE kbd_macro_end
         len == Len(Vlast_kbd_macro.elts)
     IN
     IF AlreadyDefining
       THEN \* lines 53-54
            /\ macro_call' = Outcome(snapshot, "already-defining", 0)
            /\ UNCHANGED <<defining_kbd_macro, kbd_macro_buffer,
                           kbd_macro_bufsize, kbd_macro_ptr, kbd_macro_end,
                           update_mode_lines, mpc>>
       ELSE
         /\ update_mode_lines' = ModeLinesChanged
         /\ IF ~append
              THEN \* lines 64-76
                   /\ kbd_macro_buffer' =
                        IF bufsize1 > ShrinkAbove
                          THEN Allocated(SubSeq(buffer1.slots, 1,
                                 Min(Len(buffer1.slots), MacroBufferSlots)))
                          ELSE buffer1
                   /\ kbd_macro_bufsize' =
                        IF bufsize1 > ShrinkAbove
                          THEN MacroBufferSlots ELSE bufsize1
                   /\ kbd_macro_ptr' = 0
                   /\ kbd_macro_end' = 0
                   /\ defining_kbd_macro' = DefiningValue(append)
                   /\ macro_call' = Outcome(snapshot, "ok", 0)
                   /\ mpc' = "idle"
              ELSE IF ~VectorOrString(Vlast_kbd_macro)
                THEN \* line 84 signals wrong-type-argument
                     /\ kbd_macro_buffer' = buffer1
                     /\ kbd_macro_bufsize' = bufsize1
                     /\ kbd_macro_ptr' = ptr1
                     /\ kbd_macro_end' = end1
                     /\ macro_call' = Outcome(snapshot, "wrong-type", 0)
                     /\ UNCHANGED <<defining_kbd_macro, mpc>>
                ELSE \* lines 86-115
                     /\ \E size \in
                            (IF bufsize1 - incr < len
                               THEN Xpalloc(bufsize1, len - bufsize1 + incr)
                               ELSE {bufsize1}) :
                          kbd_macro_bufsize' = size
                     /\ kbd_macro_buffer' =
                          Allocated(CopiedInto(buffer1.slots, Vlast_kbd_macro))
                     /\ kbd_macro_ptr' = len
                     /\ kbd_macro_end' = len
                     /\ IF ReExecutes(no_exec)
                          THEN /\ mpc' = "executing"
                               /\ macro_call' = Outcome(snapshot, "none", 1)
                               /\ UNCHANGED defining_kbd_macro
                          ELSE /\ mpc' = "idle"
                               /\ macro_call' = Outcome(snapshot, "ok", 0)
                               /\ defining_kbd_macro' = DefiningValue(append)
  /\ UNCHANGED <<undo_list, current_buffer, gc_inhibit, config, pc, b,
                 locals, unwind, history, last_call, editing, color,
                 Vlast_kbd_macro, color>>

\* Fexecute_kbd_macro returns: lines 115-119
ExecuteReturns ==
  /\ mpc = "executing"
  /\ defining_kbd_macro' = DefiningValue(macro_call.append)
  /\ macro_call' = [macro_call EXCEPT !.result = "ok"]
  /\ mpc' = "idle"
  /\ UNCHANGED <<undo_list, current_buffer, gc_inhibit, config, pc, b,
                 locals, unwind, history, last_call, editing, color,
                 kbd_macro_buffer, kbd_macro_bufsize, kbd_macro_ptr,
                 kbd_macro_end, Vlast_kbd_macro, update_mode_lines>>

\* Fexecute_kbd_macro signals an error, which leaves start-kbd-macro
ExecuteSignals ==
  /\ mpc = "executing"
  /\ macro_call' = [macro_call EXCEPT !.result = "exec-error"]
  /\ mpc' = "idle"
  /\ UNCHANGED <<undo_list, current_buffer, gc_inhibit, config, pc, b,
                 locals, unwind, history, last_call, editing, color,
                 defining_kbd_macro, kbd_macro_buffer, kbd_macro_bufsize,
                 kbd_macro_ptr, kbd_macro_end, Vlast_kbd_macro,
                 update_mode_lines>>

\* the recorders start-kbd-macro is called on: never used, or with a
\* buffer that earlier definitions have left
MacroRecorders ==
  {[buffer |-> NullBuffer, bufsize |-> 0, end |-> 0],
   [buffer |-> Allocated(<< >>), bufsize |-> MacroBufferSlots, end |-> 0],
   [buffer |-> Allocated(<<98, 99>>), bufsize |-> MacroBufferSlots, end |-> 2],
   [buffer |-> Allocated(<<98>>), bufsize |-> ShrinkAbove, end |-> 1],
   [buffer |-> Allocated(<<98, 99>>), bufsize |-> ShrinkAbove + 1, end |-> 2]}

LastMacros ==
  {NoMacro, MacroVector(<<97>>), MacroString(<<97, 225>>),
   MacroString(<<225, 97, 98>>)}

InitMacro ==
  /\ undo_list = [x \in Buffers |-> Qnil]
  /\ current_buffer = "b1"
  /\ gc_inhibit = 0
  /\ undo_limit = 80
  /\ undo_strong_limit = 96
  /\ Vundo_outer_limit = NoLimit
  /\ Vundo_outer_limit_function = "nil"
  /\ pc = "idle"
  /\ IdleLocals
  /\ last_call = [b |-> "none", cb |-> "none", cleared |-> FALSE,
                  changed |-> FALSE]
  /\ IdleEditing
  /\ defining_kbd_macro \in {"nil", "t"}
  /\ \E r \in MacroRecorders :
       /\ kbd_macro_buffer = r.buffer
       /\ kbd_macro_bufsize = r.bufsize
       /\ kbd_macro_end = r.end
       /\ kbd_macro_ptr = r.end
  /\ Vlast_kbd_macro \in LastMacros
  /\ update_mode_lines = 0
  /\ mpc = "idle"
  /\ macro_call = NoMacroCall
  /\ de2000 = NoDistance

NextMacro ==
  \/ \E append \in BOOLEAN, no_exec \in BOOLEAN : StartKbdMacro(append, no_exec)
  \/ ExecuteReturns
  \/ ExecuteSignals

SpecMacro == InitMacro /\ [][NextMacro]_vars

(***************************************************************************)
(* Flcms_cie_de2000, lcms.c lines 112-152.  A color is the list of Lisp    *)
(* values it is given as; numbers are integers here, and the distance      *)
(* cmsCIE2000DeltaE computes is kept as the arguments it is called with.   *)
(***************************************************************************)
NUMBERP(x) == x.int
XFLOATINT(x) == x.val

\* the colors and weights lcms-cie-de2000 is called with
Colors ==
  {<< >>,
   <<Fixnum(50), Fixnum(0)>>,
   <<Fixnum(50), Fixnum(0), Fixnum(0)>>,
   <<Fixnum(60), Fixnum(1), Fixnum(2), Fixnum(3)>>,
   <<Fixnum(50), NotANumber, Fixnum(0)>>}
Weights == {NoLimit, Fixnum(0), Fixnum(1), Fixnum(2), NotANumber}

\* parse_lab_list, lines 91-109, after CONSP (color) of lines 134 and 136
ParseLabList(lab_list) ==
  /\ Len(lab_list) >= 3
  /\ \A i \in 1..3 : NUMBERP(lab_list[i])

Lab(lab_list) == [i \in 1..3 |-> XFLOATINT(lab_list[i])]

\* the argument whose being nil makes Kl, Kc and Kh default (lines 138,
\* 142 and 146)
KlDefaultTest(kL, kC, kH) == kL
KcDefaultTest(kL, kC, kH) == kC
KhDefaultTest(kL, kC, kH) == kL

\* lines 138-141 and alike: the weight K taken from argument k, which
\* defaults when `test' is nil, and whether wrong_type_argument is signalled
WeightRejected(test, k) ==
  test # NoLimit /\ ~(NUMBERP(k) /\ XFLOATINT(k) # 0)
WeightUsed(test, k) == IF test = NoLimit THEN 1 ELSE XFLOATINT(k)

LcmsCieDe2000(color1, color2, kL, kC, kH) ==
  /\ de2000.result = "none"
  /\ LET call == [NoDistance EXCEPT !.color1 = color1, !.color2 = color2,
                                    !.kL = kL, !.kC = kC, !.kH = kH]
         Kl == WeightUsed(KlDefaultTest(kL, kC, kH), kL)
         Kc == WeightUsed(KcDefaultTest(kL, kC, kH), kC)
         Kh == WeightUsed(KhDefaultTest(kL, kC, kH), kH)
     IN
     de2000' =
       IF ~ParseLabList(color1) \/ ~ParseLabList(color2)
         THEN [call EXCEPT !.result = "invalid-color"]
       ELSE IF WeightRejected(KlDefaultTest(kL, kC, kH), kL)
         THEN [call EXCEPT !.result = "wrong-type-argument"]
       ELSE IF WeightRejected(KcDefaultTest(kL, kC, kH), kC)
         THEN [call EXCEPT !.result = "wrong-type-argument", !.Kl = Kl]
       ELSE IF WeightRejected(KhDefaultTest(kL, kC, kH), kH)
         THEN [call EXCEPT !.result = "wrong-type-argument", !.Kl = Kl,
                           !.Kc = Kc]
       ELSE [call EXCEPT !.result = "distance", !.Kl = Kl, !.Kc = Kc,
                         !.Kh = Kh]
  /\ UNCHANGED <<undo_list, current_buffer, gc_inhibit, config, pc, b,
                 locals, unwind, history, last_call, editing, macro>>

InitColor ==
  /\ undo_list = [x \in Buffers |-> Qnil]
  /\ current_buffer = "b1"
  /\ gc_inhibit = 0
  /\ undo_limit = 80
  /\ undo_strong_limit = 96
  /\ Vundo_outer_limit = NoLimit
  /\ Vundo_outer_limit_function = "nil"
  /\ pc = "idle"
  /\ IdleLocals
  /\ last_call = [b |-> "none", cb |-> "none", cleared |-> FALSE,
                  changed |-> FALSE]
  /\ IdleEditing
  /\ IdleMacro
  /\ de2000 = NoDistance

NextColor ==
  \E color1 \in Colors, color2 \in Colors,
     kL \in Weights, kC \in Weights, kH \in Weights :
    LcmsCieDe2000(color1, color2, kL, kC, kH)

SpecColor == InitColor /\ [][NextColor]_vars

(***************************************************************************)
(* Vocabulary of the properties: an undo list seen as command groups.      *)
(***************************************************************************)
IsProper(l) == l.tail = "nil"

IsPrefix(s, t) == Len(s) <= Len(t) /\ s = SubSeq(t, 1, Len(s))

\* 1 when the list begins with a boundary (the leading boundary), else 0
Leading(s) == IF Len(s) >= 1 /\ s[1] = Boundary THEN 1 ELSE 0

\* the positions of the boundaries other than the leading one
InnerBoundaries(s) == {i \in (Leading(s) + 1)..Len(s) : s[i] = Boundary}

\* the position of the last entry of the most recent command group
FirstGroupEnd(s) ==
  IF InnerBoundaries(s) = {}
    THEN Len(s)
    ELSE (CHOOSE i \in InnerBoundaries(s) :
            \A j \in InnerBoundaries(s) : i <= j) - 1

\* the accounted size of the first n entries
RECURSIVE SizeOfPrefix(_, _)
SizeOfPrefix(s, n) ==
  IF n = 0 THEN 0 ELSE SizeOfPrefix(s, n - 1) + ElementSize(s[n])

\* the running size measured at the boundary at position i
SizeAt(s, i) == SizeOfPrefix(s, i - 1)

\* the boundaries at which a limit is exceeded
Exceeding(s) ==
  {i \in InnerBoundaries(s) :
     SizeAt(s, i) > undo_limit \/ SizeAt(s, i) > undo_strong_limit}

\* the boundary at which the walk stops (0 when it stops at none)
StopBoundary(s) ==
  IF Exceeding(s) = {}
    THEN 0
    ELSE CHOOSE i \in Exceeding(s) : \A j \in Exceeding(s) : i <= j

\* the inner boundary before position i (0 when there is none)
BoundaryBefore(s, i) ==
  LET earlier == {j \in InnerBoundaries(s) : j < i} IN
  IF earlier = {} THEN 0 ELSE CHOOSE j \in earlier : \A k \in earlier : k <= j

\* truncate_undo_list has come to its end and the callback, if it was
\* called, returned nil
Finished == pc = "done" /\ cb_result \in {"none", "nil"}

\* ... and the callback has not emptied the undo list itself
FinishedUntouched == Finished /\ ~cb_cleared

Before == entry_list.cells
After == undo_list[b].cells

(***************************************************************************)
(* C1: when the callback does not handle truncation, the undo list after   *)
(* truncate_undo_list is a prefix (newest first) of the proper undo list   *)
(* before it: entries are only removed from the old end.                   *)
(***************************************************************************)
C1_TruncatedIsPrefix ==
  (Finished /\ IsProper(entry_list))
    => (IsProper(undo_list[b]) /\ IsPrefix(After, Before))

\* a call that removed entries from the old end and kept some
C1_Witness ==
  /\ Finished /\ IsProper(entry_list)
  /\ Len(After) >= 2 /\ Len(After) < Len(Before)

(***************************************************************************)
(* C2: no entry of the most recent command group (the entries before the   *)
(* first boundary that is not the leading one) of a non-empty proper undo  *)
(* list is discarded because of undo_limit or undo_strong_limit.           *)
(***************************************************************************)
C2_RecentGroupKept ==
  (FinishedUntouched /\ IsProper(entry_list) /\ Before # << >>)
    => /\ Len(After) >= FirstGroupEnd(Before)
       /\ SubSeq(After, 1, FirstGroupEnd(Before))
            = SubSeq(Before, 1, FirstGroupEnd(Before))

\* the most recent group alone is past both limits, older entries were
\* discarded, the group was kept
C2_Witness ==
  /\ FinishedUntouched /\ IsProper(entry_list)
  /\ FirstGroupEnd(Before) >= 2
  /\ SizeOfPrefix(Before, FirstGroupEnd(Before)) > undo_strong_limit
  /\ SizeOfPrefix(Before, FirstGroupEnd(Before)) > undo_limit
  /\ Len(After) < Len(Before)
  /\ Len(After) >= FirstGroupEnd(Before)

\* the walk stops at the boundary at position i because the running size
\* there exceeds undo_limit but not undo_strong_limit
StopsForLimit(s, i) ==
  /\ i # 0 /\ i = StopBoundary(s)
  /\ SizeAt(s, i) > undo_limit
  /\ ~(SizeAt(s, i) > undo_strong_limit)

\* the walk stops at the boundary at position i because the running size
\* there exceeds undo_strong_limit
StopsForStrongLimit(s, i) ==
  /\ i # 0 /\ i = StopBoundary(s)
  /\ SizeAt(s, i) > undo_strong_limit

C4_StrongLimitForgetsGroup ==
  (FinishedUntouched /\ IsProper(entry_list)
     /\ StopsForStrongLimit(Before, StopBoundary(Before)))
    => LET i == StopBoundary(Before)
           j == BoundaryBefore(Before, i)
       IN  After = SubSeq(Before, 1, (IF j = 0 THEN i ELSE j) - 1)

\* the walk stopped for undo_strong_limit at the boundary closing group 2
C4_Witness ==
  /\ FinishedUntouched /\ IsProper(entry_list)
  /\ StopsForStrongLimit(Before, StopBoundary(Before))
  /\ BoundaryBefore(Before, StopBoundary(Before)) # 0
  /\ Len(After) = BoundaryBefore(Before, StopBoundary(Before)) - 1
  /\ Len(After) >= 1

\* the most recent command group alone exceeds undo_strong_limit
RecentGroupPastStrongLimit(s) ==
  SizeOfPrefix(s, FirstGroupEnd(s)) > undo_strong_limit

(***************************************************************************)
(* C5, as claimed: if the most recent command group alone already exceeds  *)
(* undo_strong_limit, so that the walk stops at the boundary that closes   *)
(* it, truncate_undo_list discards the entire undo list.                   *)
(***************************************************************************)
C5_WholeListDiscarded ==
  (FinishedUntouched /\ IsProper(entry_list)
     /\ RecentGroupPastStrongLimit(Before)
     /\ InnerBoundaries(Before) # {})
    => undo_list[b] = Qnil

(***************************************************************************)
(* C5, amended: if the most recent command group alone already exceeds     *)
(* undo_strong_limit, truncate_undo_list keeps that group (with the        *)
(* leading boundary, if any) and discards exactly the boundary that closes *)
(* it and everything older; it does not empty a proper undo list.          *)
(***************************************************************************)
C5_OnlyRecentGroupKept ==
  (FinishedUntouched /\ IsProper(entry_list)
     /\ RecentGroupPastStrongLimit(Before))
    => /\ undo_list[b] = List(SubSeq(Before, 1, FirstGroupEnd(Before)))
       /\ undo_list[b] # Qnil

\* the most recent group exceeds the strong limit and older groups exist
C5_Witness ==
  /\ FinishedUntouched /\ IsProper(entry_list)
  /\ RecentGroupPastStrongLimit(Before)
  /\ FirstGroupEnd(Before) < Len(Before)
  /\ Len(After) = FirstGroupEnd(Before)

(***************************************************************************)
(* C6: after truncate_undo_list returns without the callback having        *)
(* handled truncation, the total accounted size of the retained undo list  *)
(* does not exceed undo_strong_limit, unless the retained list consists    *)
(* only of the most recent command group (with its leading boundary).      *)
(***************************************************************************)
C6_RetainedWithinStrongLimit ==
  (Finished /\ IsProper(entry_list))
    => \/ SizeOfPrefix(After, Len(After)) <= undo_strong_limit
       \/ After = SubSeq(Before, 1, FirstGroupEnd(Before))

(***************************************************************************)
(* C7: when the running size measured at a boundary other than the leading *)
(* one exceeds undo_limit, no entry that lies after that boundary in the   *)
(* newest-first undo list remains when the call returns without the        *)
(* callback having handled truncation.                                     *)
(***************************************************************************)
C7_OlderCommandsForgotten ==
  (Finished /\ IsProper(entry_list))
    => \A i \in InnerBoundaries(Before) :
         SizeAt(Before, i) > undo_limit => Len(After) <= i

\* a boundary past undo_limit (but not the strong limit) with entries
\* behind it, which are gone
C7_Witness ==
  /\ FinishedUntouched /\ IsProper(entry_list)
  /\ \E i \in InnerBoundaries(Before) :
       /\ SizeAt(Before, i) > undo_limit
       /\ ~(SizeAt(Before, i) > undo_strong_limit)
       /\ i < Len(Before)
       /\ Len(After) <= i

\* this call follows a call on the same buffer, the callback did the same
\* in both (it was not called, returned nil, returned t or signalled) and
\* did not modify the undo list itself
SecondCall ==
  /\ last_call.b = b
  /\ last_call.cb = cb_result
  /\ ~last_call.cleared /\ ~cb_cleared

(***************************************************************************)
(* C8: truncate_undo_list is idempotent: with fixed thresholds, nothing    *)
(* recorded in between and a callback that does not itself modify the      *)
(* undo list, a second call leaves the undo list the first call left.      *)
(***************************************************************************)
C8_Idempotent ==
  (pc = "done" /\ SecondCall) => undo_list[b] = entry_list

\* a second call on a list that the first call has cut
C8_Witness ==
  /\ pc = "done" /\ SecondCall
  /\ last_call.changed
  /\ cb_result = "nil"
  /\ Len(Before) >= 2

\* the cost of the first group, the leading boundary cell included
FirstGroupCost(s) == SizeOfPrefix(s, FirstGroupEnd(s))

\* positions of truncate_undo_list after the test of undo-outer-limit
AfterOuterLimitCheck == pc \in {"callback", "mark", "walk", "resolve", "done"}

(***************************************************************************)
(* C9: when the first group's cost (leading boundary cell included)        *)
(* exceeds an integer undo_outer_limit and undo_outer_limit_function is    *)
(* set, the callback is invoked with exactly that cost before              *)
(* truncate_undo_list has changed the undo list; if the callback returns   *)
(* non-nil, truncate_undo_list returns without itself changing the list.   *)
(***************************************************************************)
C9_OuterLimitDelegation ==
  /\ (AfterOuterLimitCheck /\ INTEGERP(Vundo_outer_limit)
        /\ FirstGroupCost(Before) > XINT(Vundo_outer_limit)
        /\ Vundo_outer_limit_function # "nil")
       => (cb_calls = 1 /\ cb_arg = FirstGroupCost(Before)
             /\ cb_list = entry_list)
  /\ (pc = "callback") => (undo_list[b] = entry_list /\ list = entry_list)
  /\ (pc = "done" /\ cb_result = "t")
       => undo_list[b] = (IF cb_cleared THEN Qnil ELSE entry_list)

\* the callback returned t on a list that the normal truncation would cut
C9_Witness ==
  /\ pc = "done" /\ cb_result = "t" /\ ~cb_cleared
  /\ cb_arg = FirstGroupCost(Before)
  /\ Leading(Before) = 1
  /\ StopBoundary(Before) # 0
  /\ undo_list[b] = entry_list

(***************************************************************************)
(* C10: in one call of truncate_undo_list the callback is invoked at most  *)
(* once, and it is invoked if and only if undo_outer_limit is an integer,  *)
(* the first group's size_so_far is strictly greater than it and           *)
(* undo_outer_limit_function is non-nil; with undo_outer_limit nil it is   *)
(* never invoked.                                                          *)
(***************************************************************************)
C10_CallbackInvokedIff ==
  /\ cb_calls <= 1
  /\ (pc \in {"idle", "skip_boundary", "first_group", "outer_limit"})
       => cb_calls = 0
  /\ AfterOuterLimitCheck
       => (cb_calls = 1 <=>
             (/\ INTEGERP(Vundo_outer_limit)
              /\ FirstGroupCost(Before) > XINT(Vundo_outer_limit)
              /\ Vundo_outer_limit_function # "nil"))
  /\ ~INTEGERP(Vundo_outer_limit) => cb_calls = 0

\* the callback was invoked once, returned nil, and the list was then cut
C10_Witness ==
  /\ pc = "done" /\ cb_calls = 1 /\ cb_result = "nil" /\ ~cb_cleared
  /\ INTEGERP(Vundo_outer_limit)
  /\ FirstGroupCost(Before) > XINT(Vundo_outer_limit)
  /\ Len(After) < Len(Before)

(***************************************************************************)
(* C11: on every exit path of truncate_undo_list (normal completion, the   *)
(* early return after the callback reports it handled truncation, and an   *)
(* error raised by the callback), garbage-collection inhibition is back at *)
(* the level it had before the call and the current buffer is the buffer   *)
(* that was current before the call.                                       *)
(***************************************************************************)
C11_BindingsUndoneOnExit ==
  (pc = "done")
    => (gc_inhibit = entry_state.gc /\ current_buffer = entry_state.buffer)

\* the early return: the callback returned t, another buffer was current
\* and garbage collection was already inhibited once
C11_Witness ==
  /\ pc = "done" /\ cb_result = "t"
  /\ entry_state.buffer # b /\ entry_state.gc = 1
  /\ gc_inhibit = 1 /\ current_buffer = entry_state.buffer

(***************************************************************************)
(* C12: whenever undo_outer_limit_function is executing inside             *)
(* truncate_undo_list (b), garbage collection is inhibited and b is the    *)
(* current buffer.                                                         *)
(***************************************************************************)
C12_CallbackRunsInhibited ==
  (pc = "callback")
    => (gc_inhibit > 0 /\ gc_inhibit > entry_state.gc /\ current_buffer = b)

\* the callback runs in a call made while another buffer was current and
\* garbage collection was not inhibited
C12_Witness ==
  /\ pc = "callback"
  /\ entry_state.gc = 0 /\ entry_state.buffer # b
  /\ gc_inhibit = 1 /\ current_buffer = b

\* the walk of lines 146-177 has ended at a boundary, not at the list's end
StoppedAtBoundary ==
  pc = "resolve" /\ IsProper(list) /\ CONSP(list, next)

\* the boundaries the walk has gone past
Passed == {i \in InnerBoundaries(list.cells) : i < next}

(***************************************************************************)
(* C17: the three threshold comparisons of truncate_undo_list are strict.  *)
(* A first group whose cost equals undo_outer_limit does not make the      *)
(* callback run; the walk stops at a boundary only where size_so_far is    *)
(* strictly greater than undo_limit or than undo_strong_limit, so not      *)
(* where it equals one of them without exceeding the other; and where it   *)
(* equals undo_strong_limit and exceeds undo_limit the cut is the one for  *)
(* undo_limit, just before that boundary.                                  *)
(***************************************************************************)
C17_ComparisonsStrict ==
  /\ (AfterOuterLimitCheck /\ INTEGERP(Vundo_outer_limit)
        /\ FirstGroupCost(Before) = XINT(Vundo_outer_limit))
       => cb_calls = 0
  /\ StoppedAtBoundary
       => /\ size_so_far = SizeAt(list.cells, next)
          /\ size_so_far > undo_limit \/ size_so_far > undo_strong_limit
          /\ (size_so_far = undo_strong_limit) => last_boundary = prev
  /\ (pc = "resolve" /\ IsProper(list))
       => \A i \in Passed :
            /\ SizeAt(list.cells, i) <= undo_limit
            /\ SizeAt(list.cells, i) <= undo_strong_limit

\* after a first group that costs exactly undo_outer_limit with the callback
\* set, the walk has gone past a boundary measured at exactly undo_limit
\* and has stopped, for undo_limit, at one measured at exactly
\* undo_strong_limit
C17_Witness ==
  /\ StoppedAtBoundary
  /\ INTEGERP(Vundo_outer_limit)
  /\ Vundo_outer_limit_function # "nil"
  /\ FirstGroupCost(Before) = XINT(Vundo_outer_limit)
  /\ cb_calls = 0
  /\ \E i \in Passed : SizeAt(list.cells, i) = undo_limit
  /\ size_so_far = undo_strong_limit
  /\ last_boundary = prev

(***************************************************************************)
(* C18: truncate_undo_list (b) changes nothing except the tail of b's undo *)
(* list: after the call the undo lists of the other buffers, undo_limit,   *)
(* undo_strong_limit, undo_outer_limit, undo_outer_limit_function and the  *)
(* modification counters are what they were before it, b's undo list is a  *)
(* prefix of what it was, and the buffer that was current before the call  *)
(* is current again.                                                       *)
(***************************************************************************)
C18_OnlyTailOfLogChanges ==
  (pc = "done")
    => /\ \A x \in Buffers \ {b} : undo_list[x] = entry_state.lists[x]
       /\ IsPrefix(undo_list[b].cells, entry_state.lists[b].cells)
       /\ config = entry_state.config
       /\ modiff = entry_state.modiff
       /\ save_modiff = entry_state.save_modiff
       /\ current_buffer = entry_state.buffer

\* the call has cut the list of a modified buffer that was not current,
\* the other buffer having undo entries of its own
C18_Witness ==
  /\ pc = "done"
  /\ entry_state.buffer # b
  /\ undo_list[b] # entry_state.lists[b]
  /\ undo_list[b].cells # << >>
  /\ undo_list[entry_state.buffer].cells # << >>
  /\ undo_list[entry_state.buffer] = entry_state.lists[entry_state.buffer]
  /\ modiff[b] > save_modiff[b]
  /\ current_buffer = entry_state.buffer

\* record_property_change has been called on a buffer whose undo list was
\* disabled / was not disabled
RecordedOnDisabled == rec.called /\ rec.lists[rec.buffer] = Qt
RecordedOnEnabled == rec.called /\ rec.lists[rec.buffer] # Qt

\* the number of first-change markers in an undo list
Markers(l) ==
  Cardinality({i \in 1..Len(l.cells) : l.cells[i] = FirstChangeMarker})

(***************************************************************************)
(* C13: when the undo list of the buffer passed to record_property_change  *)
(* is disabled, the call does nothing: that list stays disabled, neither   *)
(* prepare_record nor record_first_change is called, and no buffer's undo  *)
(* list is changed.                                                        *)
(***************************************************************************)
C13_DisabledLogNoOp ==
  RecordedOnDisabled
    => /\ undo_list[rec.buffer] = Qt
       /\ ~rec.prepared
       /\ ~rec.first_change
       /\ undo_list = rec.lists

\* a call for a buffer with a disabled undo list, made while another buffer
\* with an enabled, unmodified undo list was current
C13_Witness ==
  /\ RecordedOnDisabled
  /\ rec.current # rec.buffer
  /\ rec.lists[rec.current] = Qnil
  /\ modiff[rec.current] <= save_modiff[rec.current]
  /\ undo_list[rec.current] = Qnil

\* the counters of the buffer that was current when record_property_change
\* was called say it is unmodified since it was saved
RecordedUnmodified == modiff[rec.current] <= save_modiff[rec.current]

\* the entry the last call of record_property_change makes
RecordedEntry == PropertyChange(rec.beg, rec.beg + rec.length)

(***************************************************************************)
(* C14: after record_property_change has run on an enabled undo list with  *)
(* MODIFF <= SAVE_MODIFF, the new property-change record is the newest     *)
(* entry of that list and a first-change marker is the entry next to it;   *)
(* with MODIFF > SAVE_MODIFF the call records no first-change marker.      *)
(***************************************************************************)
C14_FirstChangeMarkerPrecedes ==
  RecordedOnEnabled
    => IF RecordedUnmodified
         THEN /\ Len(undo_list[rec.buffer].cells) >= 2
              /\ undo_list[rec.buffer].cells[1] = RecordedEntry
              /\ undo_list[rec.buffer].cells[2] = FirstChangeMarker
         ELSE \A x \in Buffers : Markers(undo_list[x]) = Markers(rec.lists[x])

(***************************************************************************)
(* C15 as stated: a second record_property_change call on the same enabled *)
(* buffer, made while MODIFF is still <= SAVE_MODIFF, records no further   *)
(* first-change marker.                                                    *)
(***************************************************************************)
C15_MarkerOncePerSaveCycle ==
  (RecordedOnEnabled /\ rec.earlier /\ RecordedUnmodified)
    => \A x \in Buffers : Markers(undo_list[x]) = Markers(rec.lists[x])

(***************************************************************************)
(* C15: record_property_change on an enabled undo list calls               *)
(* record_first_change exactly when MODIFF <= SAVE_MODIFF, in every such   *)
(* call: it leaves the counters as they are, so a second call made while   *)
(* they are unchanged records a further first-change marker.               *)
(***************************************************************************)
C15_MarkerOnEveryUnmodifiedCall ==
  RecordedOnEnabled
    => /\ rec.first_change <=> RecordedUnmodified
       /\ (rec.first_change /\ rec.lists[rec.current] # Qt)
            => Markers(undo_list[rec.current])
                 = Markers(rec.lists[rec.current]) + 1
       /\ ~rec.first_change
            => \A x \in Buffers : Markers(undo_list[x]) = Markers(rec.lists[x])

\* the second of two calls on the current buffer, its counters unchanged:
\* its undo list has two first-change markers
C15_Witness ==
  /\ RecordedOnEnabled /\ rec.earlier /\ RecordedUnmodified
  /\ rec.buffer = rec.current
  /\ rec.first_change
  /\ Markers(undo_list[rec.buffer]) = 2
  /\ undo_list[rec.buffer].cells[1] = RecordedEntry
  /\ undo_list[rec.buffer].cells[2] = FirstChangeMarker

(***************************************************************************)
(* C16: record_property_change (beg, length, prop, value, buffer) on a     *)
(* buffer whose undo list is enabled puts exactly one property-change      *)
(* record, with position beg and end beg + length, at the front of the     *)
(* undo list of that buffer, also when it is not the current buffer, and   *)
(* changes the undo list of no other buffer.                               *)
(***************************************************************************)
C16_RecordedInBuffer ==
  RecordedOnEnabled
    => /\ undo_list[rec.buffer].cells # << >>
       /\ undo_list[rec.buffer].cells[1] = RecordedEntry
       /\ undo_list[rec.buffer].tail = rec.lists[rec.buffer].tail
       /\ \E n \in 1..2 :
            /\ Len(undo_list[rec.buffer].cells)
                 = Len(rec.lists[rec.buffer].cells) + n
            /\ SubSeq(undo_list[rec.buffer].cells, n + 1,
                      Len(undo_list[rec.buffer].cells))
                 = rec.lists[rec.buffer].cells
       /\ \A x \in Buffers \ {rec.buffer} : undo_list[x] = rec.lists[x]

\* the recorder is as the last call of start-kbd-macro found it
RecorderUntouched ==
  /\ kbd_macro_buffer = macro_call.buffer
  /\ kbd_macro_bufsize = macro_call.bufsize
  /\ kbd_macro_ptr = macro_call.ptr
  /\ kbd_macro_end = macro_call.end
  /\ defining_kbd_macro = macro_call.defining
  /\ Vlast_kbd_macro = macro_call.last

\* a call of start-kbd-macro has come to its end
StartKbdMacroEnded == mpc = "idle" /\ macro_call.result # "none"

(***************************************************************************)
(* C19: start-kbd-macro called while a keyboard macro is being defined     *)
(* signals "Already defining kbd macro" and leaves the recorder as it was: *)
(* the macro buffer, its size, kbd_macro_ptr, kbd_macro_end and            *)
(* defining_kbd_macro keep their values, and the last macro is not         *)
(* executed again.                                                         *)
(***************************************************************************)
C19_AlreadyDefiningRejected ==
  /\ (StartKbdMacroEnded /\ macro_call.defining # "nil")
       => /\ macro_call.result = "already-defining"
          /\ macro_call.executions = 0
          /\ RecorderUntouched
  /\ (mpc = "executing") => macro_call.defining = "nil"
  /\ (macro_call.result = "already-defining") => macro_call.defining # "nil"

\* the rejected call asked to append to a last macro that would have been
\* copied into a grown buffer and executed again
C19_Witness ==
  /\ StartKbdMacroEnded
  /\ macro_call.result = "already-defining"
  /\ macro_call.append /\ ~macro_call.no_exec
  /\ VectorOrString(macro_call.last)
  /\ macro_call.bufsize - incr < Len(macro_call.last.elts)
  /\ RecorderUntouched

(***************************************************************************)
(* C20: after start-kbd-macro has succeeded, defining-kbd-macro is non-nil *)
(* and it is the symbol append exactly when the macro was started with a   *)
(* non-nil APPEND argument.                                                *)
(***************************************************************************)
C20_DefiningIsAppendWhenAppending ==
  (StartKbdMacroEnded /\ macro_call.result = "ok")
    => /\ defining_kbd_macro # "nil"
       /\ defining_kbd_macro = "append" <=> macro_call.append

\* the first slots of the macro buffer hold the last macro, as copied
HoldsLastMacro ==
  /\ ~kbd_macro_buffer.null
  /\ Len(kbd_macro_buffer.slots) >= Len(Vlast_kbd_macro.elts)
  /\ \A i \in 1..Len(Vlast_kbd_macro.elts) :
       kbd_macro_buffer.slots[i] = Copied(Vlast_kbd_macro, i)

(***************************************************************************)
(* C21: start-kbd-macro with non-nil APPEND executes the last keyboard     *)
(* macro again exactly once when NO-EXEC is nil and never when NO-EXEC is  *)
(* non-nil; it does so after the last macro has been copied into the       *)
(* buffer and before defining_kbd_macro is set, so that an error signalled *)
(* by the execution leaves defining_kbd_macro nil.  Without APPEND nothing *)
(* is executed.                                                            *)
(***************************************************************************)
C21_ReExecutedOnceAfterCopy ==
  /\ (StartKbdMacroEnded /\ macro_call.result \in {"ok", "exec-error"})
       => macro_call.executions =
            (IF macro_call.append /\ ~macro_call.no_exec THEN 1 ELSE 0)
  /\ (mpc = "executing")
       => /\ macro_call.append /\ ~macro_call.no_exec
          /\ macro_call.executions = 1
          /\ defining_kbd_macro = "nil"
          /\ HoldsLastMacro
          /\ kbd_macro_ptr = Len(Vlast_kbd_macro.elts)
          /\ kbd_macro_end = kbd_macro_ptr
  /\ (StartKbdMacroEnded /\ macro_call.result = "exec-error")
       => defining_kbd_macro = "nil"

\* the execution of a copied string macro has signalled an error
C21_Witness ==
  /\ StartKbdMacroEnded /\ macro_call.result = "exec-error"
  /\ macro_call.executions = 1
  /\ Vlast_kbd_macro.type = "string"
  /\ HoldsLastMacro
  /\ kbd_macro_end = Len(Vlast_kbd_macro.elts)
  /\ defining_kbd_macro = "nil"

\* start-kbd-macro has succeeded
Started == StartKbdMacroEnded /\ macro_call.result = "ok"

\* kbd_macro_buffer <= kbd_macro_ptr = kbd_macro_end
\*                  <= kbd_macro_buffer + kbd_macro_bufsize
CursorInsideBuffer ==
  /\ ~kbd_macro_buffer.null
  /\ 0 <= kbd_macro_ptr
  /\ kbd_macro_ptr = kbd_macro_end
  /\ kbd_macro_end <= kbd_macro_bufsize

\* the recording starts empty, in the buffer shrunk to 30 slots when it had
\* more than 200
StartsEmpty ==
  /\ kbd_macro_ptr = 0 /\ kbd_macro_end = 0
  /\ kbd_macro_bufsize =
       (IF macro_call.buffer.null \/ macro_call.bufsize > 200
          THEN 30 ELSE macro_call.bufsize)

\* the recording starts after the len elements of the last macro
StartsAfterLastMacro ==
  /\ kbd_macro_ptr = Len(Vlast_kbd_macro.elts)
  /\ kbd_macro_end = Len(Vlast_kbd_macro.elts)
  /\ kbd_macro_bufsize >= Len(Vlast_kbd_macro.elts) + 30

\* the event that element c of a string or vector stands for in a vector
AsVectorEvent(type, c) ==
  IF type = "string" /\ c \in 128..255 THEN 134217728 + (c - 128) ELSE c

(***************************************************************************)
(* C28 as stated: after a successful start-kbd-macro the cursor is inside  *)
(* the buffer; without APPEND the recording starts empty; with APPEND the  *)
(* first len slots hold the elements of the last macro in order,           *)
(* ptr = end = buffer + len and kbd_macro_bufsize >= len + 30.             *)
(***************************************************************************)
C28_BufferHoldsLastMacro ==
  Started
    => /\ CursorInsideBuffer
       /\ ~macro_call.append => StartsEmpty
       /\ macro_call.append
            => /\ StartsAfterLastMacro
               /\ Len(kbd_macro_buffer.slots) >= Len(Vlast_kbd_macro.elts)
               /\ \A i \in 1..Len(Vlast_kbd_macro.elts) :
                    kbd_macro_buffer.slots[i] = Vlast_kbd_macro.elts[i]

(***************************************************************************)
(* C28: after a successful start-kbd-macro the cursor is inside the        *)
(* buffer; without APPEND the recording starts empty, the buffer shrunk to *)
(* 30 slots when it had more than 200; with APPEND ptr = end =             *)
(* buffer + len, kbd_macro_bufsize >= len + 30 and the first len slots     *)
(* hold the elements of the last macro in order, an element of a string    *)
(* that has bit 0x80 set being stored with that bit replaced by the meta   *)
(* modifier CHAR_META.                                                     *)
(***************************************************************************)
C28_BufferHoldsConvertedMacro ==
  Started
    => /\ CursorInsideBuffer
       /\ ~macro_call.append => StartsEmpty
       /\ macro_call.append
            => /\ StartsAfterLastMacro
               /\ Len(kbd_macro_buffer.slots) >= Len(Vlast_kbd_macro.elts)
               /\ \A i \in 1..Len(Vlast_kbd_macro.elts) :
                    kbd_macro_buffer.slots[i] =
                      AsVectorEvent(Vlast_kbd_macro.type,
                                    Vlast_kbd_macro.elts[i])

\* a string with a meta character was appended to, in a buffer that had to
\* grow
C28_Witness ==
  /\ Started /\ macro_call.append
  /\ Vlast_kbd_macro = MacroString(<<225, 97, 98>>)
  /\ kbd_macro_buffer.slots[1] = 134217728 + 97
  /\ kbd_macro_buffer.slots[2] = 97
  /\ kbd_macro_end = 3
  /\ macro_call.bufsize = 30
  /\ kbd_macro_bufsize >= 33

\* lcms-cie-de2000 has been called with valid colors and with weights that
\* are nil or numbers
ValidDistanceCall ==
  /\ de2000.result # "none"
  /\ ParseLabList(de2000.color1) /\ ParseLabList(de2000.color2)
  /\ \A k \in {de2000.kL, de2000.kC, de2000.kH} : k = NoLimit \/ NUMBERP(k)

\* the weight an argument stands for: 1 when it is nil, else its value
WeightGiven(k) == IF k = NoLimit THEN 1 ELSE XFLOATINT(k)

(***************************************************************************)
(* C22: in lcms-cie-de2000 each of KL, KC, KH defaults to 1 when it is nil *)
(* and is used as given when it is a number: for valid colors every        *)
(* combination of nil and numeric weights yields a distance, no error      *)
(* being signalled, and the KH weight used is the KH argument (1 when KH   *)
(* is nil) whatever KL is.                                                 *)
(***************************************************************************)
C22_WeightsDefaultIndependently ==
  ValidDistanceCall
    => /\ de2000.result = "distance"
       /\ de2000.Kl = WeightGiven(de2000.kL)
       /\ de2000.Kc = WeightGiven(de2000.kC)
       /\ de2000.Kh = WeightGiven(de2000.kH)

\* the accounted size of the whole list
TotalSize(s) == SizeOfPrefix(s, Len(s))

\* the walk of a call that has come to its end scanned the whole list
ScannedWholeList ==
  pc = "done" /\ IsProper(entry_list) /\ next = Len(Before) + 1

(***************************************************************************)
(* C23 as stated: a walk that reaches the end of the list leaves it        *)
(* unchanged; an empty list stays empty; and, the callback not being       *)
(* invoked, every proper list whose total accounted size is at most        *)
(* undo_limit is unchanged.                                                *)
(***************************************************************************)
C23_UnchangedWithinUndoLimit ==
  /\ (ScannedWholeList /\ ~cb_cleared) => undo_list[b] = entry_list
  /\ (pc = "done" /\ entry_list = Qnil) => undo_list[b] = Qnil
  /\ (pc = "done" /\ IsProper(entry_list) /\ cb_calls = 0
        /\ TotalSize(Before) <= undo_limit)
       => undo_list[b] = entry_list

(***************************************************************************)
(* C23: a walk that reaches the end of the list leaves it unchanged; an    *)
(* empty list stays empty; and, the callback not being invoked, every      *)
(* proper list whose total accounted size is at most undo_limit and at     *)
(* most undo_strong_limit is unchanged.                                    *)
(***************************************************************************)
C23_UnchangedWithinBothLimits ==
  /\ (ScannedWholeList /\ ~cb_cleared) => undo_list[b] = entry_list
  /\ (pc = "done" /\ entry_list = Qnil) => undo_list[b] = Qnil
  /\ (pc = "done" /\ IsProper(entry_list) /\ cb_calls = 0
        /\ TotalSize(Before) <= undo_limit
        /\ TotalSize(Before) <= undo_strong_limit)
       => (ScannedWholeList /\ undo_list[b] = entry_list)

\* a list of three command groups whose size is exactly undo_limit and
\* below undo_strong_limit has been scanned to its end and left alone
C23_Witness ==
  /\ ScannedWholeList /\ cb_calls = 0
  /\ Cardinality(InnerBoundaries(Before)) >= 2
  /\ TotalSize(Before) = undo_limit
  /\ TotalSize(Before) < undo_strong_limit
  /\ undo_list[b] = entry_list

\* what the truncation by undo_limit and undo_strong_limit alone leaves of
\* a proper list: all of it when no boundary stops the walk, else the part
\* before the boundary the cut is made at
NormalTruncation(s) ==
  LET i == StopBoundary(s)
      j == BoundaryBefore(s, i)
  IN  IF i = 0
        THEN s
        ELSE IF SizeAt(s, i) > undo_strong_limit /\ j # 0
          THEN SubSeq(s, 1, j - 1)
          ELSE SubSeq(s, 1, i - 1)

(***************************************************************************)
(* C24: when the callback is invoked, returns nil and has not modified the *)
(* list, truncate_undo_list leaves exactly the list it leaves when no      *)
(* callback is invoked, thresholds and initial list being the same: the    *)
(* truncation by undo_limit and undo_strong_limit goes on from the         *)
(* position and the size reached at the end of the first group.            *)
(***************************************************************************)
C24_NilCallbackSameAsNone ==
  /\ (FinishedUntouched /\ IsProper(entry_list))
       => After = NormalTruncation(Before)
  /\ (pc = "mark" /\ IsProper(entry_list) /\ ~cb_cleared)
       => /\ list = entry_list /\ undo_list[b] = entry_list
          /\ next = FirstGroupEnd(Before) + 1
          /\ size_so_far = FirstGroupCost(Before)

\* the callback was invoked and returned nil, and the list was then cut at
\* a boundary behind the one that closes the first group
C24_Witness ==
  /\ FinishedUntouched /\ IsProper(entry_list)
  /\ cb_calls = 1 /\ cb_result = "nil"
  /\ StopBoundary(Before) > FirstGroupEnd(Before) + 1
  /\ After = NormalTruncation(Before)
  /\ After # Before

\* the storage cost of an entry: one list cell for a boundary or another
\* atom, two for a composite entry, and the string header less one plus the
\* length of the string for a composite entry that begins with a string
StorageCost(elt) ==
  IF elt = Boundary \/ elt.tag = "atom"
    THEN SizeofLispCons
    ELSE IF elt.tag = "cons"
      THEN 2 * SizeofLispCons
      ELSE 2 * SizeofLispCons + SizeofLispString - 1 + elt.chars

RECURSIVE CostOfPassed(_, _)
CostOfPassed(s, n) ==
  IF n = 0 THEN 0 ELSE CostOfPassed(s, n - 1) + StorageCost(s[n])

\* a call of truncate_undo_list is between its entry and its last step
Walking ==
  pc \in {"skip_boundary", "first_group", "outer_limit", "callback", "mark",
          "walk", "resolve"}

(***************************************************************************)
(* C25: at every point of the walk of truncate_undo_list, size_so_far is   *)
(* the sum of the storage costs of exactly the entries already passed,     *)
(* those before `next': one list cell for a boundary, leading or interior, *)
(* and for any other atom, two list cells for a composite entry, and in    *)
(* addition the string header size less one plus the string's length for a *)
(* composite entry whose first element is a string; the boundary at which  *)
(* the walk stops is not counted.                                          *)
(***************************************************************************)
C25_SizeIsCostOfPassed ==
  Walking
    => /\ next \in 1..(Len(list.cells) + 1)
       /\ prev = next - 1
       /\ size_so_far = CostOfPassed(list.cells, next - 1)
       /\ StoppedAtBoundary
            => /\ list.cells[next] = Boundary
               /\ size_so_far + StorageCost(Boundary)
                    = CostOfPassed(list.cells, next)

\* the walk has stopped at a boundary after passing the leading boundary, a
\* deletion record and an interior boundary
C25_Witness ==
  /\ StoppedAtBoundary
  /\ next = 4
  /\ list.cells[1] = Boundary
  /\ list.cells[2] = Deletion(1)
  /\ list.cells[3] = Boundary
  /\ size_so_far = 16 + 64 + 16

(***************************************************************************)
(* C27: truncate_undo_list never changes whether the undo list of a buffer *)
(* is disabled: a list that was t when the call began is t when it ends,   *)
(* not the empty list, whatever the thresholds, and a list that was not t  *)
(* does not become t.                                                      *)
(***************************************************************************)
C27_DisabledStaysDisabled ==
  (pc = "done") => (undo_list[b] = Qt <=> entry_list = Qt)

(***************************************************************************)
(* C26: on every proper list truncate_undo_list terminates: a call that    *)
(* has begun comes to its end; the walk moves only forward, one cell at a  *)
(* time, so that it visits no cell twice in its three loops; and XCAR and  *)
(* XCDR are taken only of a cons, `next' never lying beyond the end of the *)
(* list.  This holds for the empty list and for a list of boundaries only. *)
(***************************************************************************)
C26_Terminates ==
  /\ (pc = "skip_boundary") ~> (pc = "done")
  /\ [][(Walking /\ next' # next)
          => (CONSP(list, next) /\ next' = next + 1 /\ prev' = next)]_vars
  /\ [](Walking => next \in 1..(Len(list.cells) + 1))

\* a call on a list of boundaries only has come to its end
C26_Witness ==
  /\ pc = "done"
  /\ entry_list = List(<<Boundary, Boundary, Boundary>>)
  /\ next = 4

=============================================================================
